---- MODULE Spec2Model ----
(***************************************************************************)
(* A model of src/dataapp.py: the Streamlit data-exploration script.       *)
(*                                                                         *)
(* A table (pandas DataFrame) is a record                                  *)
(*     [columns, dtypes, rows]                                             *)
(* with columns the sequence of column names, dtypes the parallel sequence *)
(* of pandas dtypes and rows a sequence of rows, each row a sequence of    *)
(* cells parallel to columns.  A cell is a record [k, n, s]: a number      *)
(* (k = "num", value n), a text (k = "str", value s), a missing value      *)
(* (k = "nan": NaN or NaT) or a timestamp (k = "ts", n the calendar month  *)
(* as year * 12 + month - 1, s the date as pandas prints it).              *)
(***************************************************************************)
EXTENDS Integers, Sequences, FiniteSets, TLC

\* pc                 where the script run stands
\* uploaded_file      the lines of the file given to st.file_uploader
\* df                 the table load_data returned
\* filter_conditions  the dict built by the filter loop, in insertion order
\* key_index          the loop counter that names the filter widgets
\* filtered_df        the table filter_data returned
\* out                the last call: its arguments and what it left behind
\* disk               the lines of filtered_data.csv
VARIABLES pc, uploaded_file, df, filter_conditions, key_index, filtered_df, out, disk

vars == <<pc, uploaded_file, df, filter_conditions, key_index, filtered_df, out, disk>>

(* ------------------------------- bounds -------------------------------- *)

\* Most data rows of a table or of an uploaded file.
MaxRows == 2
\* Numbers in cells are 0 .. MaxNum.
MaxNum == 1
\* Most iterations of the "filter by another column?" loop in one run.
MaxFilters == 2

(* ------------------------------- cells --------------------------------- *)

Num(n) == [k |-> "num", n |-> n, s |-> ""]
Txt(s) == [k |-> "str", n |-> 0, s |-> s]
NaN == [k |-> "nan", n |-> 0, s |-> ""]
Ts(m, s) == [k |-> "ts", n |-> m, s |-> s]

Nums == 0 .. MaxNum

\* The texts that are ISO dates, and the calendar month each falls in.
DateStrs == {"2024-01-15", "2024-03-10"}

\* A text that is neither a number nor a date.
JunkStrs == {"x"}

\* The decimal text of an integer and of a float, as str() and to_csv write them.
IntText(n) == ToString(n)
FloatText(n) == ToString(n) \o ".0"

IntTexts == {IntText(n) : n \in Nums}
FloatTexts == {FloatText(n) : n \in Nums}

\* The number a numeric text denotes.
NumberOf(s) == CHOOSE n \in Nums : s = IntText(n) \/ s = FloatText(n)

IsNumericText(s) == s \in IntTexts \cup FloatTexts

(* ------------------------------- tables -------------------------------- *)

\* pd.DataFrame(): no columns, no rows.
EmptyFrame == [columns |-> <<>>, dtypes |-> <<>>, rows |-> <<>>]

\* DataFrame.empty: some axis has length 0.
IsEmpty(t) == Len(t.columns) = 0 \/ Len(t.rows) = 0

HasColumn(t, c) == \E i \in 1 .. Len(t.columns) : t.columns[i] = c

\* The position of column c in t.
ColIdx(t, c) == CHOOSE i \in 1 .. Len(t.columns) : t.columns[i] = c

DtypeOf(t, c) == t.dtypes[ColIdx(t, c)]

\* The cells of column c, top to bottom.
Column(t, c) == [r \in 1 .. Len(t.rows) |-> t.rows[r][ColIdx(t, c)]]

IsNumericDtype(d) == d \in {"int64", "float64"}

\* Series.astype(str) on one cell of a column of dtype d.
AsStr(d, cell) ==
    CASE cell.k = "nan" -> (IF d = "datetime64" THEN "NaT" ELSE "nan")
      [] cell.k = "str" -> cell.s
      [] cell.k = "ts" -> cell.s
      [] cell.k = "num" -> (IF d = "float64" THEN FloatText(cell.n) ELSE IntText(cell.n))

\* t with the cells and the dtype of column c replaced.
SetColumn(t, c, d, cells) ==
    LET i == ColIdx(t, c) IN
    [t EXCEPT !.dtypes[i] = d,
              !.rows = [r \in 1 .. Len(t.rows) |-> [t.rows[r] EXCEPT ![i] = cells[r]]]]

(* ----------------------------- filter_data ------------------------------ *)

\* Series.isin(values) on a text: a text equals no number and no NaN.
IsIn(text, values) == Txt(text) \in values

\* df[df[column].astype(str).isin(values)]: boolean-mask row selection.
MaskRows(t, column, values) ==
    LET i == ColIdx(t, column)
        keep(row) == IsIn(AsStr(t.dtypes[i], row[i]), values)
    IN  [t EXCEPT !.rows = SelectSeq(t.rows, keep)]

\* The for loop over filter_conditions.items(), from item i on.
RECURSIVE FilterLoop(_, _, _)
FilterLoop(t, fc, i) ==
    IF i > Len(fc) THEN t
    ELSE FilterLoop(MaskRows(t, fc[i].column, fc[i].values), fc, i + 1)

FilterWarning == "No data found for the given filter conditions."

filter_data(t, fc) ==
    IF ~IsEmpty(t) THEN FilterLoop(t, fc, 1) ELSE EmptyFrame

filter_data_warning(t, fc) ==
    IF ~IsEmpty(t) /\ IsEmpty(FilterLoop(t, fc, 1)) THEN FilterWarning ELSE ""

(* --------------------------- numeric coercion --------------------------- *)

\* Whether pd.to_numeric can parse one cell of an object column.
Parses(cell) == cell.k = "nan" \/ (cell.k = "str" /\ IsNumericText(cell.s))

\* The parsed cell; what cannot be parsed becomes NaN (errors='coerce').
ParseCell(cell) ==
    IF cell.k = "str" /\ IsNumericText(cell.s) THEN Num(NumberOf(cell.s)) ELSE NaN

\* The dtype pandas gives the parsed cells: integers stay int64 unless a cell
\* is missing or written as a float.
ParsedDtype(cells) ==
    IF \E r \in DOMAIN cells :
          cells[r].k # "str" \/ ~IsNumericText(cells[r].s) \/ cells[r].s \in FloatTexts
    THEN "float64" ELSE "int64"

\* df[c] = pd.to_numeric(df[c], errors='ignore'): all or nothing.
ToNumericIgnore(t, c) ==
    LET cells == Column(t, c) IN
    IF DtypeOf(t, c) # "object" THEN t
    ELSE IF \A r \in DOMAIN cells : Parses(cells[r])
         THEN SetColumn(t, c, ParsedDtype(cells), [r \in DOMAIN cells |-> ParseCell(cells[r])])
         ELSE t

\* df[c] = pd.to_numeric(df[c], errors='coerce'): cell by cell.
ToNumericCoerce(t, c) ==
    LET cells == Column(t, c) IN
    IF DtypeOf(t, c) # "object" THEN t
    ELSE SetColumn(t, c, ParsedDtype(cells), [r \in DOMAIN cells |-> ParseCell(cells[r])])

(* ---------------------------- date coercion ----------------------------- *)

\* The calendar date an ISO date text denotes.
DateParts(s) ==
    CASE s = "2024-01-15" -> [year |-> 2024, month |-> 1, day |-> 15]
      [] s = "2024-03-10" -> [year |-> 2024, month |-> 3, day |-> 10]

\* The calendar month of a date, counted in months.
MonthIndex(s) == DateParts(s).year * 12 + DateParts(s).month - 1

\* One cell under pd.to_datetime(errors='coerce'): what is no date becomes NaT.
ParseDate(cell) ==
    IF cell.k = "str" /\ cell.s \in DateStrs THEN Ts(MonthIndex(cell.s), cell.s) ELSE NaN

\* df[c] = pd.to_datetime(df[c], errors='coerce') on a text column.
ToDatetimeCoerce(t, c) ==
    LET cells == Column(t, c) IN
    SetColumn(t, c, "datetime64", [r \in DOMAIN cells |-> ParseDate(cells[r])])

\* Series.isnull().all()
AllNull(t, c) == \A r \in 1 .. Len(t.rows) : Column(t, c)[r].k = "nan"

(* ------------------------------ outcomes -------------------------------- *)

\* What one call leaves behind: the table object after the call, the
\* st.warning text ("" for none), whether an exception left the function,
\* the chart drawn ("none" for none) and, for plot_trend, the plotted series.
Result(t, warning, raised, chart, trend) ==
    [df |-> t, warning |-> warning, raised |-> raised, chart |-> chart, trend |-> trend]

(* ------------------------------ plot_data ------------------------------- *)

PlotEmptyWarning == "Filtered data is empty, no plot to display."
LineWarning == "Line plot requires numeric data for both axes."

\* plot_data with the bar branch testing the x column.
plot_data_bar_by_x(t, x_col, y_col, plot_type) ==
    IF ~IsEmpty(t) THEN
        LET t2 == ToNumericIgnore(ToNumericIgnore(t, x_col), y_col) IN
        IF plot_type = "line" THEN
            IF IsNumericDtype(DtypeOf(t2, x_col)) /\ IsNumericDtype(DtypeOf(t2, y_col))
            THEN Result(t2, "", FALSE, "line", <<>>)
            ELSE Result(t2, LineWarning, FALSE, "none", <<>>)
        ELSE
            IF IsNumericDtype(DtypeOf(t2, x_col))
            THEN Result(t2, "", FALSE, "bar_sum", <<>>)
            ELSE Result(t2, "", FALSE, "bar_count", <<>>)
    ELSE Result(t, PlotEmptyWarning, FALSE, "none", <<>>)

plot_data(t, x_col, y_col, plot_type) ==
    IF ~IsEmpty(t) THEN
        LET t2 == ToNumericIgnore(ToNumericIgnore(t, x_col), y_col) IN
        IF plot_type = "line" THEN
            IF IsNumericDtype(DtypeOf(t2, x_col)) /\ IsNumericDtype(DtypeOf(t2, y_col))
            THEN Result(t2, "", FALSE, "line", <<>>)
            ELSE Result(t2, LineWarning, FALSE, "none", <<>>)
        ELSE
            IF IsNumericDtype(DtypeOf(t2, y_col))
            THEN Result(t2, "", FALSE, "bar_sum", <<>>)
            ELSE Result(t2, "", FALSE, "bar_count", <<>>)
    ELSE Result(t, PlotEmptyWarning, FALSE, "none", <<>>)

(* ----------------------------- plot_counts ------------------------------ *)

CountsEmptyWarning == "Data is empty, no plot to display."

plot_counts(t, count_col) ==
    IF ~IsEmpty(t) THEN Result(t, "", FALSE, "bar_count", <<>>)
    ELSE Result(t, CountsEmptyWarning, FALSE, "none", <<>>)

(* ------------------------------ plot_trend ------------------------------ *)

TrendEmptyWarning == "Filtered data is empty, no trend to display."
DateWarning == "Date parsing failed. Please select a valid date column."
ValueWarning == "Value column cannot be converted to numeric. Please select a different value column."

\* The sum and the number of the non-missing values among rows 1 .. r whose
\* timestamp lies in month m.
RECURSIVE MonthTotal(_, _, _, _)
MonthTotal(dates, values, m, r) ==
    IF r = 0 THEN [sum |-> 0, count |-> 0]
    ELSE LET rest == MonthTotal(dates, values, m, r - 1) IN
         IF dates[r].k = "ts" /\ dates[r].n = m /\ values[r].k = "num"
         THEN [sum |-> rest.sum + values[r].n, count |-> rest.count + 1]
         ELSE rest

\* ResampleMean with the bins that hold no value left out, as a group-by on
\* the month would give them.
ResampleMeanGroupBy(dates, values) ==
    LET months == {dates[r].n : r \in {q \in DOMAIN dates : dates[q].k = "ts"}}
        first == CHOOSE m \in months : \A o \in months : m <= o
        last == CHOOSE m \in months : \A o \in months : o <= m
        bins == [i \in 1 .. (last - first + 1) |->
                    LET tot == MonthTotal(dates, values, first + i - 1, Len(dates)) IN
                    [month |-> first + i - 1, sum |-> tot.sum, count |-> tot.count]]
    IN  SelectSeq(bins, LAMBDA e : e.count > 0)

\* Series.resample('M').mean(): one bin for every calendar month from the
\* first to the last timestamp (rows whose index is NaT fall in no bin);
\* the mean of a bin is sum / count, and NaN when count = 0.
ResampleMean(dates, values) ==
    LET months == {dates[r].n : r \in {q \in DOMAIN dates : dates[q].k = "ts"}}
        first == CHOOSE m \in months : \A o \in months : m <= o
        last == CHOOSE m \in months : \A o \in months : o <= m
    IN  [i \in 1 .. (last - first + 1) |->
            LET tot == MonthTotal(dates, values, first + i - 1, Len(dates)) IN
            [month |-> first + i - 1, sum |-> tot.sum, count |-> tot.count]]

plot_trend(t, date_col, value_col) ==
    IF ~IsEmpty(t) THEN
        LET t1 == ToDatetimeCoerce(t, date_col) IN
        IF AllNull(t1, date_col) THEN Result(t1, DateWarning, FALSE, "none", <<>>)
        ELSE
            LET t2 == ToNumericCoerce(t1, value_col) IN
            IF AllNull(t2, value_col) THEN Result(t2, ValueWarning, FALSE, "none", <<>>)
            ELSE Result(t2, "", FALSE, "line",
                        ResampleMean(Column(t2, date_col), Column(t2, value_col)))
    ELSE Result(t, TrendEmptyWarning, FALSE, "none", <<>>)

(* ------------------------ descriptive_statistics ------------------------ *)

\* The function has no guard and no st.warning.  df[column] raises KeyError
\* when the table has no such column.  Series.describe() of a numeric column
\* with rows is numeric and its bar chart is drawn.  For a text column and
\* for a column without rows whether desc_stats.plot(kind='bar') raises
\* depends on what describe() returns: both outcomes are kept.
descriptive_statistics(t, column) ==
    IF ~HasColumn(t, column) THEN {Result(t, "", TRUE, "none", <<>>)}
    ELSE IF IsNumericDtype(DtypeOf(t, column)) /\ Len(t.rows) > 0
         THEN {Result(t, "", FALSE, "bar_stats", <<>>)}
         ELSE {Result(t, "", TRUE, "none", <<>>), Result(t, "", FALSE, "bar_stats", <<>>)}

(* -------------------------- correlation_matrix -------------------------- *)

CorrWarning == "No numeric columns available for correlation matrix."

\* df.select_dtypes(include=[float, int])
NumericColumns(t) ==
    SelectSeq([i \in 1 .. Len(t.columns) |-> i], LAMBDA i : IsNumericDtype(t.dtypes[i]))

\* correlation_matrix with the guard "fewer than two numeric columns".
correlation_matrix_two(t) ==
    IF Len(NumericColumns(t)) < 2 \/ Len(t.rows) = 0
    THEN Result(t, CorrWarning, FALSE, "none", <<>>)
    ELSE Result(t, "", FALSE, "matrix", <<>>)

\* numeric_df.empty: no numeric column, or no row.
correlation_matrix(t) ==
    IF Len(NumericColumns(t)) = 0 \/ Len(t.rows) = 0
    THEN Result(t, CorrWarning, FALSE, "none", <<>>)
    ELSE Result(t, "", FALSE, "matrix", <<>>)

(* --------------------------- distribution_plot -------------------------- *)

\* No guard and no st.warning here either: KeyError without the column, a
\* histogram for a numeric column with rows, and either outcome of
\* Series.hist otherwise.
distribution_plot(t, column) ==
    IF ~HasColumn(t, column) THEN {Result(t, "", TRUE, "none", <<>>)}
    ELSE IF IsNumericDtype(DtypeOf(t, column)) /\ Len(t.rows) > 0
         THEN {Result(t, "", FALSE, "histogram", <<>>)}
         ELSE {Result(t, "", TRUE, "none", <<>>), Result(t, "", FALSE, "histogram", <<>>)}

(* ------------------------------ CSV text -------------------------------- *)

\* A file is a sequence of lines and a line a sequence of tokens: a token is
\* a delimiter character ("," or ";") or a run of other characters.  A field
\* that is empty is the token "", and csv writes the only field of a line,
\* when it is empty, as two double quotes.
QuotedEmpty == "\"\""

\* One line: the fields joined by the delimiter.
RECURSIVE JoinFields(_, _, _)
JoinFields(fields, sep, i) ==
    IF i > Len(fields) THEN <<>>
    ELSE IF i = 1 THEN <<fields[1]>> \o JoinFields(fields, sep, 2)
         ELSE <<sep, fields[i]>> \o JoinFields(fields, sep, i + 1)

WriteLine(fields, sep) ==
    IF Len(fields) = 1 /\ fields[1] = "" THEN <<QuotedEmpty>> ELSE JoinFields(fields, sep, 1)

\* One cell as DataFrame.to_csv writes it: a missing value is the empty field.
CsvText(d, cell) == IF cell.k = "nan" THEN "" ELSE AsStr(d, cell)

\* DataFrame.to_csv(path, index=False): a header line, then one line per
\* row, comma separated.
to_csv(t) ==
    <<WriteLine(t.columns, ",")>> \o
    [r \in 1 .. Len(t.rows) |->
        WriteLine([i \in 1 .. Len(t.columns) |-> CsvText(t.dtypes[i], t.rows[r][i])], ",")]

\* The fields of one line read with delimiter sep: the text between two
\* delimiters is one field, whatever other characters it holds.
RECURSIVE SplitLine(_, _, _, _, _)
SplitLine(line, sep, i, cur, acc) ==
    IF i > Len(line) THEN Append(acc, cur)
    ELSE IF line[i] = sep THEN SplitLine(line, sep, i + 1, "", Append(acc, cur))
         ELSE SplitLine(line, sep, i + 1, cur \o line[i], acc)

Unquote(f) == IF f = QuotedEmpty THEN "" ELSE f

ReadLine(line, sep) ==
    LET fs == SplitLine(line, sep, 1, "", <<>>) IN [i \in 1 .. Len(fs) |-> Unquote(fs[i])]

\* skip_blank_lines: a line without any character is not a row.
IsBlank(line) == Len(line) = 0 \/ line = <<"">>

(* ------------------------------ load_data ------------------------------- *)

\* dtype_spec: the columns read as text whatever they hold.
dtype_spec == {"Plant (WERKS)", "G/L Account (SAKNR)", "Company Code (BUKRS)"}

\* DedupNames without the renaming.
KeepNames(header) == header

\* read_csv renames the k-th repetition of a header name to name.k.
DedupNames(header) ==
    [i \in 1 .. Len(header) |->
        LET k == Cardinality({j \in 1 .. i - 1 : header[j] = header[i]}) IN
        IF k = 0 THEN header[i] ELSE header[i] \o "." \o ToString(k)]

\* The dtype read_csv infers for the fields of one column.
InferDtype(name, fields) ==
    IF name \in dtype_spec THEN "object"
    ELSE IF Len(fields) = 0 THEN "object"
    ELSE IF \A r \in DOMAIN fields : fields[r] = "" \/ IsNumericText(fields[r])
         THEN IF \E r \in DOMAIN fields : fields[r] = "" \/ fields[r] \in FloatTexts
              THEN "float64" ELSE "int64"
         ELSE "object"

\* One field as a cell of a column of dtype d: the empty field is missing.
ReadCell(d, field) ==
    IF field = "" THEN NaN
    ELSE IF d = "object" THEN Txt(field) ELSE Num(NumberOf(field))

\* pd.read_csv(uploaded_file, delimiter=';', dtype=dtype_spec) on a file
\* whose data rows have as many fields as the header.
read_csv(file) ==
    LET lines == SelectSeq(file, LAMBDA l : ~IsBlank(l))
        names == DedupNames(ReadLine(lines[1], ";"))
        data == [r \in 1 .. Len(lines) - 1 |-> ReadLine(lines[r + 1], ";")]
        dts == [i \in 1 .. Len(names) |->
                   InferDtype(names[i], [r \in 1 .. Len(data) |-> data[r][i]])]
    IN  [columns |-> names, dtypes |-> dts,
         rows |-> [r \in 1 .. Len(data) |->
                      [i \in 1 .. Len(names) |-> ReadCell(dts[i], data[r][i])]]]

\* t restricted to the columns at the positions keep (ascending).
SelectColumns(t, keep) ==
    [columns |-> [j \in 1 .. Len(keep) |-> t.columns[keep[j]]],
     dtypes |-> [j \in 1 .. Len(keep) |-> t.dtypes[keep[j]]],
     rows |-> [r \in 1 .. Len(t.rows) |-> [j \in 1 .. Len(keep) |-> t.rows[r][keep[j]]]]]

Positions(t) == [i \in 1 .. Len(t.columns) |-> i]

\* df.loc[:, (df != 0).any(axis=0)]: the columns with some cell that is not 0.
DropZeroColumns(t) ==
    SelectColumns(t, SelectSeq(Positions(t), LAMBDA i :
        \E r \in 1 .. Len(t.rows) : ~(t.rows[r][i].k = "num" /\ t.rows[r][i].n = 0)))

\* df.dropna(how='all', axis=1): the columns with some cell that is not missing.
DropNaColumns(t) ==
    SelectColumns(t, SelectSeq(Positions(t), LAMBDA i :
        \E r \in 1 .. Len(t.rows) : t.rows[r][i].k # "nan"))

LoadError == "Error loading data: No columns to parse from file"

\* A file without any line makes read_csv raise EmptyDataError, which the
\* except clause turns into st.error and pd.DataFrame().
load_data(file) ==
    IF \A i \in 1 .. Len(file) : IsBlank(file[i])
    THEN [df |-> EmptyFrame, error |-> LoadError]
    ELSE [df |-> DropNaColumns(DropZeroColumns(read_csv(file))), error |-> ""]

(* ------------------------------- inputs --------------------------------- *)

\* The tables the functions are called on have up to two columns, "a" and
\* "b", each of integers, of floats (numbers and NaN) or of objects (texts
\* and missing values): as texts a holds dates and other texts, b holds
\* numbers written as text and other texts.
TextCells(c) ==
    IF c = "a" THEN {Txt(s) : s \in DateStrs \cup JunkStrs} \cup {NaN}
    ELSE {Txt(s) : s \in {IntText(1)} \cup JunkStrs} \cup {NaN}

ColumnCells(c, d) ==
    CASE d = "int64" -> {Num(n) : n \in Nums}
      [] d = "float64" -> {Num(n) : n \in Nums} \cup {NaN}
      [] d = "object" -> TextCells(c)

Dtypes == {"int64", "float64", "object"}

RowsOver(cols, dts) ==
    IF Len(cols) = 0 THEN {<<>>}
    ELSE IF Len(cols) = 1 THEN {<<x>> : x \in ColumnCells(cols[1], dts[1])}
    ELSE {<<x, y>> : x \in ColumnCells(cols[1], dts[1]), y \in ColumnCells(cols[2], dts[2])}

\* The column lists of the tables: pd.DataFrame() has none.
ColumnLists == {<<>>, <<"a">>, <<"a", "b">>}

\* How many rows a table over cols may have.
RowCounts(cols) == IF Len(cols) = 0 THEN {0} ELSE 0 .. MaxRows

\* The texts of the values of column c of t.
TextsOf(t, c) == {Txt(AsStr(DtypeOf(t, c), Column(t, c)[r])) : r \in 1 .. Len(t.rows)}

\* The values of column c of t: df[c].unique().tolist()
UniqueValues(t, c) == {Column(t, c)[r] : r \in 1 .. Len(t.rows)}

ColumnsOf(t) == {t.columns[i] : i \in 1 .. Len(t.columns)}

Condition(c, vs) == [column |-> c, values |-> vs]

\* The FilterSpecs over t: each column at most once, in any order, each with
\* a set of texts of the column.
FilterSpecs(t) ==
    LET one == UNION {{Condition(c, vs) : vs \in SUBSET TextsOf(t, c)} : c \in ColumnsOf(t)}
    IN  {<<>>} \cup {<<x>> : x \in one}
        \cup {p \in {<<x, y>> : x \in one, y \in one} : p[1].column # p[2].column}

\* The uploaded files: a header of one or two names and up to MaxRows data
\* rows with as many fields, semicolon separated; or no line at all.
Headers == {<<"a">>, <<"a", "b">>, <<"a", "a">>, <<" a", "a b">>, <<"Plant (WERKS)", "b">>}

Fields == {"", "x"} \cup IntTexts

FieldRows(n) == IF n = 0 THEN {<<>>} ELSE IF n = 1 THEN {<<x>> : x \in Fields} ELSE {<<x, y>> : x \in Fields, y \in Fields}

MakeFile(header, data) ==
    <<WriteLine(header, ";")>> \o [r \in 1 .. Len(data) |-> WriteLine(data[r], ";")]

\* The file of no line at all has the header <<>>.
FileOf(header, data) == IF Len(header) = 0 THEN <<>> ELSE MakeFile(header, data)

(* ------------------------------- the calls ------------------------------ *)

Call(op, args, arg, res) ==
    [op |-> op, args |-> args, arg |-> arg, warning |-> res.warning,
     raised |-> res.raised, chart |-> res.chart, trend |-> res.trend]

NoCall == Call("none", <<>>, EmptyFrame, Result(EmptyFrame, "", FALSE, "none", <<>>))

\* if st.button('Generate Plot'): plot_data(filtered_df, x_col, y_col, plot_type)
GeneratePlot ==
    /\ pc = "filtered"
    /\ \E x_col \in ColumnsOf(df), y_col \in ColumnsOf(df), plot_type \in {"line", "bar"} :
          LET res == plot_data(filtered_df, x_col, y_col, plot_type) IN
          /\ filtered_df' = res.df
          /\ out' = Call("plot_data", <<x_col, y_col, plot_type>>, filtered_df, res)
    /\ pc' = "done"
    /\ UNCHANGED <<uploaded_file, df, filter_conditions, key_index, disk>>

\* if st.button('Export Filtered Data'): filtered_df.to_csv('filtered_data.csv', index=False)
\* The button is inside "if not filtered_df.empty".
ExportFilteredData ==
    /\ pc = "filtered"
    /\ ~IsEmpty(filtered_df)
    /\ disk' = to_csv(filtered_df)
    /\ out' = Call("to_csv", <<>>, filtered_df, Result(filtered_df, "", FALSE, "none", <<>>))
    /\ pc' = "done"
    /\ UNCHANGED <<uploaded_file, df, filter_conditions, key_index, filtered_df>>

\* if st.button('Show Counts'): plot_counts(filtered_df, count_col)
ShowCounts ==
    /\ pc = "filtered"
    /\ \E count_col \in ColumnsOf(df) :
          LET res == plot_counts(filtered_df, count_col) IN
          /\ filtered_df' = res.df
          /\ out' = Call("plot_counts", <<count_col>>, filtered_df, res)
    /\ pc' = "done"
    /\ UNCHANGED <<uploaded_file, df, filter_conditions, key_index, disk>>

\* The date column is drawn among the text columns without numbers written
\* as text, and the value column is another column.
DateColumns(t) ==
    {c \in ColumnsOf(t) :
        /\ DtypeOf(t, c) = "object"
        /\ \A r \in 1 .. Len(t.rows) : ~Parses(Column(t, c)[r]) \/ Column(t, c)[r].k = "nan"}

\* if st.button('Show Trend'): plot_trend(filtered_df, date_col, value_col)
ShowTrend ==
    /\ pc = "filtered"
    /\ \E date_col \in DateColumns(df) : \E value_col \in ColumnsOf(df) \ {date_col} :
          LET res == plot_trend(filtered_df, date_col, value_col) IN
          /\ filtered_df' = res.df
          /\ out' = Call("plot_trend", <<date_col, value_col>>, filtered_df, res)
    /\ pc' = "done"
    /\ UNCHANGED <<uploaded_file, df, filter_conditions, key_index, disk>>

\* if st.button('Show Descriptive Statistics'): descriptive_statistics(filtered_df, desc_col)
ShowDescriptiveStatistics ==
    /\ pc = "filtered"
    /\ \E desc_col \in ColumnsOf(df) :
          \E res \in descriptive_statistics(filtered_df, desc_col) :
             /\ filtered_df' = res.df
             /\ out' = Call("descriptive_statistics", <<desc_col>>, filtered_df, res)
    /\ pc' = "done"
    /\ UNCHANGED <<uploaded_file, df, filter_conditions, key_index, disk>>

\* if st.button('Show Correlation Matrix'): correlation_matrix(filtered_df)
ShowCorrelationMatrix ==
    /\ pc = "filtered"
    /\ LET res == correlation_matrix(filtered_df) IN
          /\ filtered_df' = res.df
          /\ out' = Call("correlation_matrix", <<>>, filtered_df, res)
    /\ pc' = "done"
    /\ UNCHANGED <<uploaded_file, df, filter_conditions, key_index, disk>>

\* if st.button('Show Distribution Plot'): distribution_plot(filtered_df, distribution_col)
ShowDistributionPlot ==
    /\ pc = "filtered"
    /\ \E distribution_col \in ColumnsOf(df) :
          \E res \in distribution_plot(filtered_df, distribution_col) :
             /\ filtered_df' = res.df
             /\ out' = Call("distribution_plot", <<distribution_col>>, filtered_df, res)
    /\ pc' = "done"
    /\ UNCHANGED <<uploaded_file, df, filter_conditions, key_index, disk>>

Buttons ==
    \/ GeneratePlot
    \/ ExportFilteredData
    \/ ShowCounts
    \/ ShowTrend
    \/ ShowDescriptiveStatistics
    \/ ShowCorrelationMatrix
    \/ ShowDistributionPlot

(* ------------------- the functions called on any table ------------------ *)

\* A table is bound either as the argument of filter_data (pc = "loaded") or
\* as the table the other functions are called on (pc = "filtered"): the
\* table itself, or what filter_data returns for it.
Init ==
    /\ \E cols \in ColumnLists : \E dts \in [1 .. Len(cols) -> Dtypes] :
          \E n \in RowCounts(cols) : \E rs \in [1 .. n -> RowsOver(cols, dts)] :
             df = [columns |-> cols, dtypes |-> dts, rows |-> rs]
    /\ pc \in {"loaded", "filtered"}
    /\ filtered_df \in (IF pc = "filtered" THEN {df, filter_data(df, <<>>)} ELSE {EmptyFrame})
    /\ uploaded_file = <<>>
    /\ filter_conditions = <<>>
    /\ key_index = 0
    /\ out = NoCall
    /\ disk = <<>>

\* filtered_df = filter_data(df, filter_conditions)
CallFilterData ==
    /\ pc = "loaded"
    /\ \E fc \in FilterSpecs(df) :
          /\ filter_conditions' = fc
          /\ filtered_df' = filter_data(df, fc)
          /\ out' = Call("filter_data", <<>>, df,
                         Result(filter_data(df, fc), filter_data_warning(df, fc), FALSE, "none", <<>>))
    /\ pc' = "done"
    /\ UNCHANGED <<uploaded_file, df, key_index, disk>>

Next == CallFilterData \/ Buttons

Spec == Init /\ [][Next]_vars

(* ---------------------------- the script run ---------------------------- *)

AppInit ==
    /\ pc = "start"
    /\ uploaded_file = <<>>
    /\ df = EmptyFrame
    /\ filter_conditions = <<>>
    /\ key_index = 0
    /\ filtered_df = EmptyFrame
    /\ out = NoCall
    /\ disk = <<>>

\* uploaded_file = st.file_uploader(...); df = load_data(uploaded_file);
\* the rest of the run is inside "if not df.empty".
Upload ==
    /\ pc = "start"
    /\ \E header \in Headers \cup {<<>>} : \E n \in RowCounts(header) :
          \E data \in [1 .. n -> FieldRows(Len(header))] :
          LET file == FileOf(header, data)
              res == load_data(file)
          IN
          /\ uploaded_file' = file
          /\ df' = res.df
          /\ out' = Call("load_data", <<>>, EmptyFrame,
                         Result(res.df, res.error, FALSE, "none", <<>>))
          /\ pc' = IF IsEmpty(res.df) THEN "done" ELSE "loaded"
    /\ UNCHANGED <<filter_conditions, key_index, filtered_df, disk>>

\* filter_conditions[filter_column] = selected_values: a key already there
\* keeps its place.
Put(fc, c, vs) ==
    IF \E i \in 1 .. Len(fc) : fc[i].column = c
    THEN [i \in 1 .. Len(fc) |-> IF fc[i].column = c THEN Condition(c, vs) ELSE fc[i]]
    ELSE Append(fc, Condition(c, vs))

\* One pass of the while loop up to the radio button: the user selects a
\* column ('' for none) and some of its values (possibly none).
Selected(fc, filter_column, selected_values) ==
    IF filter_column # "" /\ selected_values # {}
    THEN Put(fc, filter_column, selected_values) ELSE fc

Choices(t) ==
    {[column |-> "", values |-> {}]}
    \cup UNION {{Condition(c, vs) : vs \in SUBSET UniqueValues(t, c)} : c \in ColumnsOf(t)}

\* add_more == "Yes": the loop goes round again.
FilterByAnotherColumn ==
    /\ pc = "loaded"
    /\ key_index + 1 < MaxFilters
    /\ \E ch \in Choices(df) :
          filter_conditions' = Selected(filter_conditions, ch.column, ch.values)
    /\ key_index' = key_index + 1
    /\ UNCHANGED <<pc, uploaded_file, df, filtered_df, out, disk>>

\* add_more == "No": break, then filtered_df = filter_data(df, filter_conditions);
\* the widgets below are inside "if not filtered_df.empty".
FilterAndProceed ==
    /\ pc = "loaded"
    /\ \E ch \in Choices(df) :
          LET fc == Selected(filter_conditions, ch.column, ch.values) IN
          /\ filter_conditions' = fc
          /\ filtered_df' = filter_data(df, fc)
          /\ out' = Call("filter_data", <<>>, df,
                         Result(filter_data(df, fc), filter_data_warning(df, fc), FALSE, "none", <<>>))
          /\ pc' = IF IsEmpty(filter_data(df, fc)) THEN "done" ELSE "filtered"
    /\ key_index' = key_index + 1
    /\ UNCHANGED <<uploaded_file, df, disk>>

\* One run of the script; every interaction starts another run from AppInit.
AppNext == Upload \/ FilterByAnotherColumn \/ FilterAndProceed \/ Buttons

AppSpec == AppInit /\ [][AppNext]_vars

\* load_data alone, on every file.
LoadNext == Upload

LoadSpec == AppInit /\ [][LoadNext]_vars

(* ============================== the claims ============================== *)

Operations ==
    {"plot_data", "plot_counts", "plot_trend", "descriptive_statistics",
     "correlation_matrix", "distribution_plot"}

\* Whether a row satisfies every condition of a FilterSpec over table t: its
\* value in the condition's column, as text, is one of the allowed texts.
Satisfies(t, row, fc) ==
    \A i \in 1 .. Len(fc) :
        Txt(AsStr(DtypeOf(t, fc[i].column), row[ColIdx(t, fc[i].column)])) \in fc[i].values

\* C1: filter_data(T, S) returns exactly the rows of T that satisfy every
\* condition of S, in T's order, and with an empty S it returns T unchanged.
C1_FilterExact ==
    out.op = "filter_data" =>
        /\ filtered_df.rows = SelectSeq(df.rows, LAMBDA row : Satisfies(df, row, filter_conditions))
        /\ Len(filtered_df.rows) <= Len(df.rows)
        /\ (filter_conditions = <<>> => filtered_df = df)

\* The part of C1 that holds of every table: the rows are selected exactly.
FilterRowsExact ==
    out.op = "filter_data" =>
        filtered_df.rows = SelectSeq(df.rows, LAMBDA row : Satisfies(df, row, filter_conditions))

\* C2: in the app, filtering column c by a non-empty set V of the values
\* offered for c leaves exactly the loaded rows whose value in c is in V,
\* and at least one row.
C2_PickedValuesKept ==
    (out.op = "filter_data" /\ Len(filter_conditions) = 1) =>
        LET c == filter_conditions[1].column
            V == filter_conditions[1].values
        IN  /\ filtered_df.rows = SelectSeq(df.rows, LAMBDA row : row[ColIdx(df, c)] \in V)
            /\ Len(filtered_df.rows) > 0

\* C3: filtering the filtered table again by the same FilterSpec changes
\* neither its rows nor its columns.
C3_FilterIdempotent ==
    out.op = "filter_data" => filter_data(filtered_df, filter_conditions) = filtered_df

(* Observations of a table: the rows with a parseable date in one column
   and a parseable number in another, stated on the cells as they are
   before the call. *)
CellAt(t, c, r) == t.rows[r][ColIdx(t, c)]

HasDate(t, c, r) == CellAt(t, c, r).k = "str" /\ CellAt(t, c, r).s \in DateStrs

HasValue(t, c, r) ==
    \/ CellAt(t, c, r).k = "num"
    \/ CellAt(t, c, r).k = "str" /\ IsNumericText(CellAt(t, c, r).s)

ValueAt(t, c, r) ==
    IF CellAt(t, c, r).k = "num" THEN CellAt(t, c, r).n ELSE NumberOf(CellAt(t, c, r).s)

DatedRows(t, d) == {r \in 1 .. Len(t.rows) : HasDate(t, d, r)}

\* The rows observed in month m.
Observed(t, d, v, m) ==
    {r \in DatedRows(t, d) : MonthIndex(CellAt(t, d, r).s) = m /\ HasValue(t, v, r)}

ObservedMonths(t, d, v) ==
    {MonthIndex(CellAt(t, d, r).s) : r \in {q \in DatedRows(t, d) : HasValue(t, v, q)}}

DatedMonths(t, d) == {MonthIndex(CellAt(t, d, r).s) : r \in DatedRows(t, d)}

RECURSIVE SumValues(_, _, _)
SumValues(t, v, rs) ==
    IF rs = {} THEN 0
    ELSE LET r == CHOOSE q \in rs : TRUE IN ValueAt(t, v, r) + SumValues(t, v, rs \ {r})

\* Entry e of the series is the mean of the rows observed in its month.
IsMeanOf(e, t, d, v) ==
    /\ e.count = Cardinality(Observed(t, d, v, e.month))
    /\ e.sum = SumValues(t, v, Observed(t, d, v, e.month))

Chronological(trend) == \A i \in 1 .. Len(trend) - 1 : trend[i].month < trend[i + 1].month

TrendDrawn == out.op = "plot_trend" /\ out.chart = "line"

OnlyTextAndNumbers(t) ==
    \A r \in 1 .. Len(t.rows) : \A i \in 1 .. Len(t.columns) : t.rows[r][i].k \in {"str", "num"}

\* C5: a table of text and number cells written by the export and read back
\* by load_data has the same column names, as many columns and the same rows.
C5_ExportLoadRoundTrip ==
    (out.op = "to_csv" /\ OnlyTextAndNumbers(out.arg)) =>
        LET back == load_data(disk).df IN
        /\ back.columns = out.arg.columns
        /\ Len(back.columns) = Len(out.arg.columns)
        /\ back.rows = out.arg.rows

\* The columns of t that hold numbers.
NumericColumnNames(t) ==
    {t.columns[i] : i \in {j \in 1 .. Len(t.columns) : t.dtypes[j] \in {"int64", "float64"}}}

C7_EmptyTableWarns ==
    (out.op \in Operations /\ Len(out.arg.rows) = 0) =>
        out.warning # "" /\ ~out.raised

\* The second half of C7, of the script run: no operation is reached with an
\* empty table, and none raises after an empty upload or an empty filter
\* result.
AppGuardsEmptyTables ==
    /\ out.op \in Operations => ~IsEmpty(out.arg)
    /\ (IsEmpty(df) \/ IsEmpty(filtered_df)) => ~out.raised

\* C8: a call of one of the six operations leaves every cell and every
\* dtype of its table as it was.
C8_OperationsLeaveTable ==
    out.op \in Operations => filtered_df = out.arg

\* The name a header field has once it is stripped and its interior spaces
\* are underscores, for the header fields of Headers and the names read_csv
\* makes of them.
Normalize(name) ==
    CASE name = " a" -> "a"
      [] name = "a b" -> "a_b"
      [] name = "Plant (WERKS)" -> "Plant_(WERKS)"
      [] OTHER -> name

PairwiseDistinct(names) ==
    \A i, j \in 1 .. Len(names) : i # j => names[i] # names[j]

\* The header fields of the uploaded file as they are written in it.
WrittenHeader == SelectSeq(uploaded_file[1], LAMBDA tok : tok # ";")

Loaded == out.op = "load_data" /\ Len(df.columns) > 0

NumericAfterCoercion(t, c) ==
    \/ DtypeOf(t, c) \in {"int64", "float64"}
    \/ \A r \in 1 .. Len(t.rows) :
          \/ CellAt(t, c, r).k = "nan"
          \/ CellAt(t, c, r).k = "str" /\ IsNumericText(CellAt(t, c, r).s)

\* C10: on a table with rows, 'line' draws only if x and y are both numeric
\* after the attempted coercion and otherwise warns and draws nothing; 'bar'
\* draws the sum of y by x when y is numeric and the count per x otherwise.
C10_PlotDecision ==
    (out.op = "plot_data" /\ ~IsEmpty(out.arg)) =>
        LET x == out.args[1]
            y == out.args[2]
        IN  IF out.args[3] = "line"
            THEN IF NumericAfterCoercion(out.arg, x) /\ NumericAfterCoercion(out.arg, y)
                 THEN out.chart = "line" /\ out.warning = ""
                 ELSE out.chart = "none" /\ out.warning # ""
            ELSE /\ out.warning = ""
                 /\ out.chart = IF NumericAfterCoercion(out.arg, y) THEN "bar_sum" ELSE "bar_count"

\* A bar chart of sums was drawn for a y column of numbers written as text
\* over an x column of texts.
C10_Witness ==
    /\ out.op = "plot_data"
    /\ out.chart = "bar_sum"
    /\ DtypeOf(out.arg, out.args[2]) = "object"
    /\ ~NumericAfterCoercion(out.arg, out.args[1])

====
